---- MODULE Spec2Model ----
(***************************************************************************)
(* A model of scripts/sprite_bench.py: the trial loop of main, the         *)
(* per-label accumulator `cases`, the baseline loader, the summary table   *)
(* and JSON payload, and the two artifact writes (Spec); of                *)
(* parse_profile_output of scripts/capture_sprite_perf.py (ParseSpec); and *)
(* of scripts/run_perf_suite.py with the capture_sprite_perf.py process it *)
(* starts (SuiteSpec).  Each specification holds the variables of the      *)
(* other programs still.                                                   *)
(*                                                                         *)
(* Numbers.  A measured value is an exact rational <<n, d>> with d > 0 in  *)
(* lowest terms (statistics.mean and statistics.pstdev compute on exact    *)
(* fractions of their inputs).  A standard deviation is kept as the        *)
(* non-negative root of a rational, [root_of |-> q].                       *)
(*                                                                         *)
(* Strings.  A label is a sequence of character codes, compared as Python  *)
(* compares str values (code point by code point, a proper prefix first).  *)
(*                                                                         *)
(* JSON.  An object is a function from its keys to their values (a Python  *)
(* dict); a missing key is a key outside its domain.                       *)
(*                                                                         *)
(* Left out: the members of the payload and the lines of the text that     *)
(* only copy the command line and the environment (commit, command, env,   *)
(* baseline provenance, harness metadata).  The timestamp stands for the   *)
(* run that wrote a file: "now" for this run, "earlier" for any other.     *)
(***************************************************************************)
EXTENDS Integers, Sequences, FiniteSets, TLC

VARIABLES
    pc,              \* position of main: see the actions below
    runs,            \* args.runs
    baseline,        \* args.baseline ("" when no --baseline was given)
    files,           \* the file system: path -> file
    baseline_map,    \* main's baseline_map: label -> mean
    idx,             \* loop variable of the trial loop
    cases,           \* main's cases: label -> slot
    rows,            \* the table rows, header first
    summary_payload, \* the JSON payload (its members)
    error,           \* the exception that ended main ("" when none)
    harness_wrote    \* the harness wrote the report in the trial under way

vars == <<pc, runs, baseline, files, baseline_map, idx, cases, rows,
          summary_payload, error, harness_wrote>>

\* capture_sprite_perf.py, parse_profile_output
VARIABLES
    parse_pc,        \* "call" before parse_profile_output, "return" after
    stdout,          \* its argument: the lines of the profile output
    data             \* its result

parse_vars == <<parse_pc, stdout, data>>

\* run_perf_suite.py and the capture_sprite_perf.py it starts
VARIABLES
    suite,           \* main of run_perf_suite.py: position, args, results
    capture,         \* main of capture_sprite_perf.py, as a child process
    calls,           \* the child processes started so far, in order
    perf_dir         \* the summaries present under perf/

suite_vars == <<suite, capture, calls, perf_dir>>

\* the variables of the other two programs
elsewhere == <<parse_vars, suite_vars>>

all_vars == <<vars, parse_vars, suite_vars>>

----------------------------------------------------------------------------
(* Bounds of the model.                                                    *)

\* the largest --runs value tried
MaxRuns == 2

\* the largest number of case entries the harness reports over a whole run
MaxEntries == 3

----------------------------------------------------------------------------
(* Exact rationals.                                                        *)

Abs(x) == IF x < 0 THEN -x ELSE x

RECURSIVE Gcd(_, _)
Gcd(a, b) == IF b = 0 THEN a ELSE Gcd(b, a % b)

Rat(n, d) ==
    LET g == Gcd(Abs(n), Abs(d))
        s == IF d < 0 THEN -1 ELSE 1
    IN  <<(s * n) \div g, (s * d) \div g>>

Zero == Rat(0, 1)

RAdd(p, q) == Rat(p[1] * q[2] + q[1] * p[2], p[2] * q[2])

RSub(p, q) == Rat(p[1] * q[2] - q[1] * p[2], p[2] * q[2])

RMul(p, q) == Rat(p[1] * q[1], p[2] * q[2])

RECURSIVE RSum(_)
RSum(values) ==
    IF values = <<>> THEN Zero ELSE RAdd(values[1], RSum(Tail(values)))

\* statistics.mean: the exact sum divided by the number of values
mean(values) == RMul(RSum(values), Rat(1, Len(values)))

\* the sum of squared deviations from the mean, divided by divisor
Variance(values, divisor) ==
    LET m  == mean(values)
        sq == [i \in 1..Len(values) |->
                  RMul(RSub(values[i], m), RSub(values[i], m))]
    IN  RMul(RSum(sq), Rat(1, divisor))

\* the sample (Bessel-corrected) deviation, statistics.stdev
stdev(values) == [root_of |-> Variance(values, Len(values) - 1)]

\* statistics.pstdev: the root of the population variance
pstdev(values) == [root_of |-> Variance(values, Len(values))]

\* the float 0.0 as a standard deviation
ZeroStd == [root_of |-> Zero]

----------------------------------------------------------------------------
(* Labels and their order.                                                 *)

Labels == {<<1>>, <<1, 2>>, <<2>>}

RECURSIVE StrLess(_, _)
\* Python's a < b on str
StrLess(a, b) ==
    IF b = <<>> THEN FALSE
    ELSE IF a = <<>> THEN TRUE
    ELSE IF a[1] # b[1] THEN a[1] < b[1]
    ELSE StrLess(Tail(a), Tail(b))

\* a bug a sort could have: shorter strings first
ShortLess(a, b) ==
    Len(a) < Len(b) \/ (Len(a) = Len(b) /\ StrLess(a, b))

\* the order sorted() puts the keys in
KeyLess(a, b) == StrLess(a, b)

RECURSIVE sorted(_)
\* sorted(keys): the keys in ascending order
sorted(keys) ==
    IF keys = {} THEN <<>>
    ELSE LET least == CHOOSE k \in keys : \A o \in keys \ {k} : KeyLess(k, o)
         IN  <<least>> \o sorted(keys \ {least})

----------------------------------------------------------------------------
(* Formatting: the cells of the summary table.                             *)

\* q * 1000 rounded to the nearest integer (ties to even), for q >= 0
Milli(q) ==
    LET n == q[1] * 1000
        k == n \div q[2]
        r == n % q[2]
    IN  IF 2 * r > q[2] \/ (2 * r = q[2] /\ k % 2 = 1) THEN k + 1 ELSE k

RECURSIVE Isqrt(_, _, _)
\* the largest k in lo..hi with k * k <= x
Isqrt(x, lo, hi) ==
    IF lo = hi THEN lo
    ELSE LET mid == (lo + hi + 1) \div 2
         IN  IF mid * mid <= x THEN Isqrt(x, mid, hi) ELSE Isqrt(x, lo, mid - 1)

\* 1000 * sqrt(q) rounded to the nearest integer
MilliRoot(q) ==
    LET x == (4000000 * q[1]) \div q[2]
    IN  (Isqrt(x, 0, 30000) + 1) \div 2

Cell(kind, word, str, sign, num) ==
    [kind |-> kind, word |-> word, str |-> str, sign |-> sign, num |-> num,
     pad |-> 0]

\* a fixed word of the header, or "n/a"
Word(w) == Cell("word", w, <<>>, "", 0)

\* a label
LabelCell(label) == Cell("label", "", label, "", 0)

\* f"run{i}"
RunHeader(i) == Cell("run", "run", <<>>, "", i)

\* f"{v:.3f}"
F3(v) == Cell(".3f", "", <<>>, IF v[1] < 0 THEN "-" ELSE "", Milli(Rat(Abs(v[1]), v[2])))

\* f"{v:+.3f}"
SignedF3(v) == Cell(".3f", "", <<>>, IF v[1] < 0 THEN "-" ELSE "+", Milli(Rat(Abs(v[1]), v[2])))

\* f"{s:.3f}" of a standard deviation
RootF3(s) == Cell(".3f", "", <<>>, "", MilliRoot(s.root_of))

RECURSIVE Digits(_)
\* len(str(n)) for n >= 0
Digits(n) == IF n < 10 THEN 1 ELSE 1 + Digits(n \div 10)

\* len(cell)
CellLen(c) ==
    CASE c.kind = "word"  -> Len(c.word)
      [] c.kind = "label" -> Len(c.str)
      [] c.kind = "run"   -> Len(c.word) + Digits(c.num)
      [] c.kind = ".3f"   -> Len(c.sign) + Digits(c.num \div 1000) + 4

Max(S) == CHOOSE x \in S : \A y \in S : y <= x

\* format_table raises IndexError when a row is longer than the first row
FormatTableRaises(table) ==
    \E r \in 1..Len(table) : Len(table[r]) > Len(table[1])

\* format_table: every cell right-justified to the width of its column
format_table(table) ==
    IF table = <<>> THEN <<>>
    ELSE LET widths == [i \in 1..Len(table[1]) |->
                          Max({0} \cup {CellLen(table[r][i]) :
                                  r \in {x \in 1..Len(table) : i <= Len(table[x])}})]
         IN  [r \in 1..Len(table) |->
                [i \in 1..Len(table[r]) |->
                   [table[r][i] EXCEPT !.pad = widths[i] - CellLen(table[r][i])]]]

----------------------------------------------------------------------------
(* Files and documents.                                                    *)

\* DEFAULT_REPORT
ReportPath == "target/animation_targets_report.json"

\* PERF_DIR / f"{args.label}.txt" and .json, for the default --label
TextPath == "perf/latest_sprite_bench.txt"
JsonPath == "perf/latest_sprite_bench.json"

\* some other path a --baseline may name
BasePath == "perf/before_phase0.json"

Paths == {ReportPath, TextPath, JsonPath, BasePath}

Absent == [kind |-> "absent", body |-> <<>>]

\* what a write that failed part-way leaves behind
Partial == [kind |-> "partial", body |-> <<>>]

\* a file holding json.dumps(doc)
JsonFile(doc) == [kind |-> "json", body |-> doc]

\* a file holding text
TextFile(text) == [kind |-> "text", body |-> text]

\* Path.exists
exists(fs, path) == fs[path].kind # "absent"

\* json.loads raises JSONDecodeError on anything but a JSON document
JsonDecodeRaises(file) == file.kind # "json"

\* json.loads(path.read_text())
json_loads(file) == file.body

\* Path.write_text
write_text(fs, path, file) == [fs EXCEPT ![path] = file]

\* dict.get(key, default)
Get(obj, key, default) == IF key \in DOMAIN obj THEN obj[key] ELSE default

----------------------------------------------------------------------------
(* The harness report: the case entries of one trial.                      *)

VariantA ==
    [units |-> "ms", count |-> 10000, budget_ms |-> Rat(3, 10), steps |-> 240,
     samples |-> 240, summary |-> [mean_step_ms |-> Rat(6, 1)]]

VariantB ==
    [units |-> "us", count |-> 5000, budget_ms |-> Rat(1, 2), steps |-> 120,
     samples |-> 60, summary |-> [mean_step_ms |-> Rat(7, 1)]]

Entry(label, variant) == [label |-> label] @@ variant

Entries == {Entry(l, v) : l \in Labels, v \in {VariantA, VariantB}}

\* the reports of at most n entries, in every order and multiplicity
Reports(n) == UNION {[1..k -> Entries] : k \in 0..n}

\* a report an earlier run left at the report path
StaleReport == JsonFile([cases |-> <<Entry(<<2>>, VariantB)>>])

----------------------------------------------------------------------------
(* Baseline documents and the state main starts in.                        *)

\* a summary with no "systems" member
DocNoSystems == [label |-> "empty", timestamp |-> "earlier"]

\* a summary of an earlier run; its second entry has no "mean_ms"
DocOne ==
    [label |-> "before_phase0", timestamp |-> "earlier",
     systems |-> << [label |-> <<1>>, mean_ms |-> Rat(5, 1)],
                    [label |-> <<2>>] >>]

\* a summary naming a label twice
DocTwo ==
    [label |-> "before_phase1", timestamp |-> "earlier",
     systems |-> << [label |-> <<1, 2>>, mean_ms |-> Rat(6, 1)],
                    [label |-> <<1>>, mean_ms |-> Rat(13, 2)],
                    [label |-> <<1, 2>>, mean_ms |-> Rat(7, 1)] >>]

\* the text artifact of an earlier run
OldText == TextFile([timestamp |-> "earlier", table |-> <<>>])

Files(report, text, json, base) ==
    (ReportPath :> report) @@ (TextPath :> text) @@ (JsonPath :> json)
        @@ (BasePath :> base)

\* the command lines and file systems main is started with
Scenarios ==
    { [baseline |-> "", files |-> Files(Absent, Absent, Absent, Absent)],
      [baseline |-> "",
       files |-> Files(StaleReport, OldText, JsonFile(DocOne), JsonFile(DocOne))],
      [baseline |-> BasePath, files |-> Files(Absent, Absent, Absent, Absent)],
      [baseline |-> BasePath,
       files |-> Files(StaleReport, OldText, JsonFile(DocOne), Absent)],
      [baseline |-> BasePath,
       files |-> Files(Absent, Absent, Absent, JsonFile(DocNoSystems))],
      [baseline |-> BasePath,
       files |-> Files(Absent, OldText, JsonFile(DocTwo), JsonFile(DocOne))],
      [baseline |-> BasePath,
       files |-> Files(StaleReport, Absent, Absent, JsonFile(DocTwo))],
      [baseline |-> JsonPath,
       files |-> Files(Absent, OldText, JsonFile(DocOne), Absent)],
      [baseline |-> TextPath,
       files |-> Files(Absent, OldText, JsonFile(DocOne), Absent)] }

NoDict == [k \in {} |-> Zero]

Init ==
    /\ pc = "load_baseline"
    /\ runs \in 0..MaxRuns
    /\ \E s \in Scenarios : baseline = s.baseline /\ files = s.files
    /\ baseline_map = NoDict
    /\ idx = 1
    /\ cases = NoDict
    /\ rows = <<>>
    /\ summary_payload = NoDict
    /\ error = ""
    /\ harness_wrote = FALSE

\* bool(args.baseline)
has_baseline == baseline # ""

Raise(exception) ==
    /\ pc' = "raised"
    /\ error' = exception

----------------------------------------------------------------------------
(* load_baseline and the start of main.                                    *)

\* a bug: the mean read from a key the writer does not use
load_baseline_mean(payload) ==
    LET systems == Get(payload, "systems", <<>>)
        last(l) == Max({i \in 1..Len(systems) : systems[i].label = l})
    IN  [l \in {systems[i].label : i \in 1..Len(systems)} |->
            Get(systems[last(l)], "mean", Zero)]

\* the mapping load_baseline builds: a later entry of a label replaces an
\* earlier one, a missing mean is 0.0
load_baseline(payload) ==
    LET systems == Get(payload, "systems", <<>>)
        last(l) == Max({i \in 1..Len(systems) : systems[i].label = l})
    IN  [l \in {systems[i].label : i \in 1..Len(systems)} |->
            Get(systems[last(l)], "mean_ms", Zero)]

NoBaseline ==
    /\ pc = "load_baseline"
    /\ ~has_baseline
    /\ pc' = "loop"
    /\ UNCHANGED <<elsewhere, harness_wrote,
                   runs, baseline, files, baseline_map, idx, cases, rows,
                   summary_payload, error>>

\* a bug: a baseline that is not there is taken for an empty one
BaselineMissingIgnored ==
    /\ pc = "load_baseline"
    /\ has_baseline
    /\ ~exists(files, baseline)
    /\ pc' = "loop"
    /\ UNCHANGED <<elsewhere, harness_wrote,
                   runs, baseline, files, baseline_map, idx, cases, rows,
                   summary_payload, error>>

BaselineMissing ==
    /\ pc = "load_baseline"
    /\ has_baseline
    /\ ~exists(files, baseline)
    /\ Raise("FileNotFoundError: Baseline summary not found")
    /\ UNCHANGED <<elsewhere, harness_wrote,
                   runs, baseline, files, baseline_map, idx, cases, rows,
                   summary_payload>>

BaselineUnreadable ==
    /\ pc = "load_baseline"
    /\ has_baseline
    /\ exists(files, baseline)
    /\ JsonDecodeRaises(files[baseline])
    /\ Raise("JSONDecodeError")
    /\ UNCHANGED <<elsewhere, harness_wrote,
                   runs, baseline, files, baseline_map, idx, cases, rows,
                   summary_payload>>

BaselineLoaded ==
    /\ pc = "load_baseline"
    /\ has_baseline
    /\ exists(files, baseline)
    /\ ~JsonDecodeRaises(files[baseline])
    /\ baseline_map' = load_baseline(json_loads(files[baseline]))
    /\ pc' = "loop"
    /\ UNCHANGED <<elsewhere, harness_wrote,
                   runs, baseline, files, idx, cases, rows, summary_payload,
                   error>>

----------------------------------------------------------------------------
(* The trial loop.                                                         *)

\* the number of values collected so far, over all labels
Collected(cs) ==
    LET RECURSIVE Count(_)
        Count(ls) == IF ls = {} THEN 0
                     ELSE LET l == CHOOSE x \in ls : TRUE
                          IN  Len(cs[l].runs) + Count(ls \ {l})
    IN  Count(DOMAIN cs)

\* read_report's cases
report_entries(file) == Get(json_loads(file), "cases", <<>>)

\* the slot cases.setdefault creates for a label it has not seen
NewSlot(entry) ==
    [units |-> entry.units, count |-> entry.count, budget |-> entry.budget_ms,
     steps |-> entry.steps, samples |-> entry.samples, runs |-> <<>>]

\* a bug: the metadata of the slot follows the latest entry
LatestSlot(cs, entry) ==
    [NewSlot(entry) EXCEPT
        !.runs = IF entry.label \in DOMAIN cs THEN cs[entry.label].runs ELSE <<>>]

\* cases.setdefault(label, {...}): the slot of the label, created if missing
setdefault(cs, entry) ==
    IF entry.label \in DOMAIN cs THEN cs[entry.label] ELSE NewSlot(entry)

\* one pass of the loop over report_entries
Observe(cs, entry) ==
    LET slot == setdefault(cs, entry)
        next == [slot EXCEPT !.runs = Append(@, entry.summary.mean_step_ms)]
    IN  (entry.label :> next) @@ cs

RECURSIVE Fold(_, _)
\* the loop over report_entries, in order
Fold(cs, entries) ==
    IF entries = <<>> THEN cs
    ELSE Fold(Observe(cs, entries[1]), Tail(entries))

\* the reports the harness may write when it exits 0
HarnessReports ==
    {JsonFile([cases |-> r]) : r \in Reports(MaxEntries - Collected(cases))}

\* the harness may also exit 0 and leave the report path as it was (no test
\* selected, or a report written to another path than --report-path)
HarnessMaySkipReport ==
    \/ files[ReportPath].kind # "json"
    \/ Collected(cases) + Len(report_entries(files[ReportPath])) <= MaxEntries

\* a bug: the exit status is not checked and the loop goes on
HarnessFailureIgnored ==
    /\ pc = "loop"
    /\ idx <= runs
    /\ error' = "CalledProcessError: cargo test"
    /\ pc' = "read_report"
    /\ UNCHANGED <<elsewhere, harness_wrote,
                   runs, baseline, files, baseline_map, idx, cases, rows,
                   summary_payload>>

HarnessFails ==
    /\ pc = "loop"
    /\ idx <= runs
    /\ Raise("CalledProcessError: cargo test")
    /\ UNCHANGED <<elsewhere, harness_wrote,
                   runs, baseline, files, baseline_map, idx, cases, rows,
                   summary_payload>>

RunOnce ==
    /\ pc = "loop"
    /\ idx <= runs
    /\ \/ /\ \E f \in HarnessReports : files' = write_text(files, ReportPath, f)
          /\ harness_wrote' = TRUE
       \/ /\ HarnessMaySkipReport
          /\ files' = files
          /\ harness_wrote' = FALSE
    /\ pc' = "read_report"
    /\ UNCHANGED <<elsewhere, runs, baseline, baseline_map, idx, cases, rows,
                   summary_payload, error>>

ReportMissing ==
    /\ pc = "read_report"
    /\ ~exists(files, ReportPath)
    /\ Raise("FileNotFoundError: Benchmark report not found")
    /\ UNCHANGED <<elsewhere, harness_wrote,
                   runs, baseline, files, baseline_map, idx, cases, rows,
                   summary_payload>>

ReadReport ==
    /\ pc = "read_report"
    /\ exists(files, ReportPath)
    /\ cases' = Fold(cases, report_entries(files[ReportPath]))
    /\ idx' = idx + 1
    /\ pc' = "loop"
    /\ harness_wrote' = FALSE
    /\ UNCHANGED <<elsewhere, runs, baseline, files, baseline_map, rows,
                   summary_payload, error>>

----------------------------------------------------------------------------
(* The summary: table rows and JSON payload.                               *)

\* the header row
Header(n, hb) ==
    <<Word("system")>> \o [i \in 1..n |-> RunHeader(i)]
        \o <<Word("mean"), Word("stddev")>>
        \o (IF hb THEN <<Word("delta")>> ELSE <<>>)
        \o <<Word("budget")>>

\* std_val
StdVal(values) == IF Len(values) > 1 THEN pstdev(values) ELSE ZeroStd

\* a bug: a label missing from the baseline is compared with 0.0
DeltaPayloadDefault(hb, bmap, label, mean_val) ==
    IF hb THEN <<RSub(mean_val, Get(bmap, label, Zero))>> ELSE <<>>

\* a bug: the operands of the subtraction swapped
DeltaPayloadSwapped(hb, bmap, label, mean_val) ==
    IF hb /\ label \in DOMAIN bmap
    THEN <<RSub(bmap[label], mean_val)>>
    ELSE <<>>

\* delta_payload, an Optional[float]: <<>> is None, <<d>> is the float d
DeltaPayload(hb, bmap, label, mean_val) ==
    IF hb /\ label \in DOMAIN bmap
    THEN <<RSub(mean_val, bmap[label])>>
    ELSE <<>>

\* a bug: the delta cell is appended whether or not a baseline was given
DeltaCellsAlways(hb, bmap, label, mean_val) ==
    LET delta_payload == DeltaPayload(hb, bmap, label, mean_val)
    IN  <<IF delta_payload = <<>> THEN Word("n/a")
          ELSE SignedF3(delta_payload[1])>>

\* the cells appended to the row between stddev and budget
DeltaCells(hb, bmap, label, mean_val) ==
    LET delta_payload == DeltaPayload(hb, bmap, label, mean_val)
        delta_cell == IF delta_payload = <<>> THEN Word("n/a")
                      ELSE SignedF3(delta_payload[1])
    IN  IF hb THEN <<delta_cell>> ELSE <<>>

\* the table row of a label
Row(hb, bmap, label, slot) ==
    <<LabelCell(label)>> \o [i \in 1..Len(slot.runs) |-> F3(slot.runs[i])]
        \o <<F3(mean(slot.runs)), RootF3(StdVal(slot.runs))>>
        \o DeltaCells(hb, bmap, label, mean(slot.runs))
        \o <<F3(slot.budget)>>

\* entry_payload
EntryPayload(hb, bmap, label, slot) ==
    LET delta_payload == DeltaPayload(hb, bmap, label, mean(slot.runs))
    IN  [label |-> label, units |-> slot.units, count |-> slot.count,
         budget_ms |-> slot.budget, runs |-> slot.runs,
         mean_ms |-> mean(slot.runs), stddev_ms |-> StdVal(slot.runs)]
          @@ (IF delta_payload # <<>>
              THEN [delta_vs_baseline_ms |-> delta_payload[1]]
              ELSE NoDict)

\* rows, once the loop over sorted(cases.keys()) has ended
Rows(n, hb, bmap, cs) ==
    LET order == sorted(DOMAIN cs)
    IN  <<Header(n, hb)>>
          \o [i \in 1..Len(order) |-> Row(hb, bmap, order[i], cs[order[i]])]

\* summary_payload, once the loop over sorted(cases.keys()) has ended
SummaryPayload(hb, bmap, cs) ==
    LET order == sorted(DOMAIN cs)
    IN  [label |-> "latest_sprite_bench", timestamp |-> "now",
         systems |-> [i \in 1..Len(order) |->
                         EntryPayload(hb, bmap, order[i], cs[order[i]])]]

GitRevFails ==
    /\ pc = "loop"
    /\ idx > runs
    /\ Raise("CalledProcessError: git rev-parse")
    /\ UNCHANGED <<elsewhere, harness_wrote,
                   runs, baseline, files, baseline_map, idx, cases, rows,
                   summary_payload>>

Summarise ==
    /\ pc = "loop"
    /\ idx > runs
    /\ rows' = Rows(runs, has_baseline, baseline_map, cases)
    /\ summary_payload' = SummaryPayload(has_baseline, baseline_map, cases)
    /\ IF FormatTableRaises(rows')
       THEN Raise("IndexError")
       ELSE pc' = "write_text" /\ error' = error
    /\ UNCHANGED <<elsewhere, harness_wrote,
                   runs, baseline, files, baseline_map, idx, cases>>

----------------------------------------------------------------------------
(* The artifact writes.                                                    *)

\* summary_text
SummaryText == TextFile([timestamp |-> "now", table |-> format_table(rows)])

\* what a failed write_text may leave at the path: the file as it was (the
\* open failed) or a truncated or half-written file
FailedWrites(fs, path) ==
    {fs, write_text(fs, path, Partial)}

WriteText ==
    /\ pc = "write_text"
    /\ files' = write_text(files, TextPath, SummaryText)
    /\ pc' = "write_json"
    /\ UNCHANGED <<elsewhere, harness_wrote,
                   runs, baseline, baseline_map, idx, cases, rows,
                   summary_payload, error>>

WriteTextFails ==
    /\ pc = "write_text"
    /\ files' \in FailedWrites(files, TextPath)
    /\ Raise("OSError")
    /\ UNCHANGED <<elsewhere, harness_wrote,
                   runs, baseline, baseline_map, idx, cases, rows,
                   summary_payload>>

WriteJson ==
    /\ pc = "write_json"
    /\ files' = write_text(files, JsonPath, JsonFile(summary_payload))
    /\ pc' = "done"
    /\ UNCHANGED <<elsewhere, harness_wrote,
                   runs, baseline, baseline_map, idx, cases, rows,
                   summary_payload, error>>

WriteJsonFails ==
    /\ pc = "write_json"
    /\ files' \in FailedWrites(files, JsonPath)
    /\ Raise("OSError")
    /\ UNCHANGED <<elsewhere, harness_wrote,
                   runs, baseline, baseline_map, idx, cases, rows,
                   summary_payload>>

----------------------------------------------------------------------------

Next ==
    \/ NoBaseline
    \/ BaselineMissing
    \/ BaselineUnreadable
    \/ BaselineLoaded
    \/ HarnessFails
    \/ RunOnce
    \/ ReportMissing
    \/ ReadReport
    \/ GitRevFails
    \/ Summarise
    \/ WriteText
    \/ WriteTextFails
    \/ WriteJson
    \/ WriteJsonFails

\* parse_profile_output is not being called
ParseIdle ==
    /\ parse_pc = "idle"
    /\ stdout = <<>>
    /\ data = NoDict

\* run_perf_suite.py as started with the given command line
SuiteStart(position, skip_bench, skip_capture, capture_extra) ==
    [pc |-> position, skip_bench |-> skip_bench, skip_capture |-> skip_capture,
     capture_extra |-> capture_extra, bench_result |-> <<>>,
     capture_result |-> <<>>, error |-> ""]

\* no capture_sprite_perf.py process
NoCapture ==
    [pc |-> "none", skip_bench |-> FALSE, skip_profile |-> FALSE,
     candidates |-> 1, candidate |-> 1, bench_cmd |-> <<>>,
     profile_data |-> <<>>]

\* run_perf_suite.py is not running
SuiteIdle ==
    /\ suite = SuiteStart("idle", FALSE, FALSE, <<>>)
    /\ capture = NoCapture
    /\ calls = <<>>
    /\ perf_dir = {}

\* sprite_bench.py starts; the other programs are not running
BenchInit == Init /\ ParseIdle /\ SuiteIdle

Spec == BenchInit /\ [][Next]_all_vars

----------------------------------------------------------------------------
(* What the claims speak of.                                               *)

HarnessError == "CalledProcessError: cargo test"

\* a file this run wrote, whole or in part
OfThisRun(file) ==
    \/ file.kind = "partial"
    \/ file.kind \in {"text", "json"} /\ file.body.timestamp = "now"

\* main has built its summary (the table rows and the payload)
Summarised == pc \in {"write_text", "write_json", "done"}

\* the static metadata of a slot or of a report entry
SlotMeta(slot) ==
    <<slot.units, slot.count, slot.budget, slot.steps, slot.samples>>

EntryMeta(entry) ==
    <<entry.units, entry.count, entry.budget_ms, entry.steps, entry.samples>>

IsPrefix(a, b) == Len(a) <= Len(b) /\ SubSeq(b, 1, Len(a)) = a

\* the runs collected for a label so far
RunsOf(cs, l) == IF l \in DOMAIN cs THEN cs[l].runs ELSE <<>>

\* the positions of the entries of a report that carry the label
Mentions(entries, l) == {i \in 1..Len(entries) : entries[i].label = l}

\* the step that folds the report of a trial into the accumulator
FoldStep == pc = "read_report" /\ pc' = "loop"

----------------------------------------------------------------------------
\* where main stands after a failed harness invocation
Stopped ==
    error = HarnessError =>
        /\ pc = "raised"
        /\ idx <= runs
        /\ ~OfThisRun(files[TextPath])
        /\ ~OfThisRun(files[JsonPath])
        /\ rows = <<>>
        /\ summary_payload = NoDict

(* C1: when the harness invocation of a trial exits non-zero, main stops   *)
(* at that trial: no later trial is invoked (nothing changes any more),    *)
(* neither artifact of this run is written, and no summary is built.       *)

C1_HarnessFailureAborts ==
    [](Stopped) /\ [][error = HarnessError => UNCHANGED vars]_vars

\* trial 2 of 2 failed after trial 1 had contributed values
C1_Witness ==
    /\ error = HarnessError
    /\ runs = 2
    /\ idx = 2
    /\ Collected(cases) > 0

----------------------------------------------------------------------------
(* C2: every completed trial appends to the runs of a label exactly one    *)
(* entry if the report of the trial contained the label and none           *)
(* otherwise, at the end of the sequence; so a label has one entry per     *)
(* trial that reported it, in trial order.                                 *)

C2_OneEntryPerTrial ==
    [][FoldStep =>
          \A l \in Labels :
              LET n == IF Mentions(report_entries(files[ReportPath]), l) = {}
                       THEN 0 ELSE 1
              IN  /\ IsPrefix(RunsOf(cases, l), RunsOf(cases', l))
                  /\ Len(RunsOf(cases', l)) = Len(RunsOf(cases, l)) + n]_vars

----------------------------------------------------------------------------
(* C3: the metadata of a label is that of the first report entry that      *)
(* mentions the label; every later entry of the label, whatever metadata   *)
(* it carries, only appends to runs.                                       *)

C3_MetadataFromFirstEntry ==
    [][/\ \A l \in DOMAIN cases :
              /\ l \in DOMAIN cases'
              /\ SlotMeta(cases'[l]) = SlotMeta(cases[l])
              /\ IsPrefix(cases[l].runs, cases'[l].runs)
       /\ \A l \in DOMAIN cases' \ DOMAIN cases :
              LET entries == report_entries(files[ReportPath])
                  first == CHOOSE i \in Mentions(entries, l) :
                               \A j \in Mentions(entries, l) : i <= j
              IN  /\ FoldStep
                  /\ Mentions(entries, l) # {}
                  /\ SlotMeta(cases'[l]) = EntryMeta(entries[first])]_vars

\* a slot that keeps the metadata of its first entry (VariantA) after an
\* entry with other metadata (VariantB, the only source of the value 7)
C3_Witness ==
    /\ <<1>> \in DOMAIN cases
    /\ SlotMeta(cases[<<1>>]) = EntryMeta(VariantA)
    /\ cases[<<1>>].runs = <<Rat(6, 1), Rat(7, 1)>>

----------------------------------------------------------------------------
(* C4: without a baseline no entry of systems has a delta_vs_baseline_ms   *)
(* member, the header has no delta cell and every row is label, runs,      *)
(* mean, stddev, budget with no delta cell.                                *)

IsDeltaCell(c) == c = Word("n/a") \/ c = Word("delta") \/ c.sign \in {"+"}

C4_NoBaselineNoDelta ==
    (Summarised /\ ~has_baseline) =>
        /\ \A i \in 1..Len(summary_payload.systems) :
               "delta_vs_baseline_ms" \notin DOMAIN summary_payload.systems[i]
        /\ rows[1] = <<Word("system")>> \o [i \in 1..runs |-> RunHeader(i)]
                        \o <<Word("mean"), Word("stddev"), Word("budget")>>
        /\ \A r \in 2..Len(rows) :
               /\ Len(rows[r]) = Len(cases[rows[r][1].str].runs) + 4
               /\ \A i \in 1..Len(rows[r]) : ~IsDeltaCell(rows[r][i])

\* both artifacts written for two labels, no baseline given although a
\* summary of an earlier run exists
C4_Witness ==
    /\ pc = "done"
    /\ ~has_baseline
    /\ exists(files, BasePath)
    /\ Len(summary_payload.systems) = 2

----------------------------------------------------------------------------
(* The baseline as it is on disk, read before main writes anything.        *)

BaselineSystems == Get(files[baseline].body, "systems", <<>>)

BaselineLabels == {BaselineSystems[i].label : i \in 1..Len(BaselineSystems)}

\* the mean the baseline gives a label: that of its last entry for the
\* label, 0.0 when that entry has none
BaselineMean(l) ==
    LET last == Max(Mentions(BaselineSystems, l))
    IN  Get(BaselineSystems[last], "mean_ms", Zero)

\* p < q
RLess(p, q) == p[1] * q[2] < q[1] * p[2]

\* the delta cell of a row of a run with a baseline
DeltaCellOf(row) == row[Len(row) - 1]

----------------------------------------------------------------------------
(* C5: with a baseline, a label the baseline does not contain gets the     *)
(* cell "n/a", which is not the cell of a zero delta, and no               *)
(* delta_vs_baseline_ms member; a label the baseline contains gets a       *)
(* numeric delta in both.                                                  *)

C5_MissingIsNotZero ==
    (pc = "write_text" /\ has_baseline) =>
        \A i \in 1..Len(summary_payload.systems) :
            LET e    == summary_payload.systems[i]
                cell == DeltaCellOf(rows[i + 1])
            IN  /\ rows[i + 1][1] = LabelCell(e.label)
                /\ e.label \notin BaselineLabels =>
                      /\ cell = Word("n/a")
                      /\ cell # SignedF3(Zero)
                      /\ "delta_vs_baseline_ms" \notin DOMAIN e
                /\ e.label \in BaselineLabels =>
                      /\ "delta_vs_baseline_ms" \in DOMAIN e
                      /\ cell = SignedF3(e.delta_vs_baseline_ms)
                      /\ cell.sign \in {"+", "-"}

\* one label is missing from the baseline and another has a delta of zero
C5_Witness ==
    /\ pc = "write_text"
    /\ has_baseline
    /\ \E i, j \in 1..Len(summary_payload.systems) :
           /\ summary_payload.systems[i].label \notin BaselineLabels
           /\ "delta_vs_baseline_ms" \in DOMAIN summary_payload.systems[j]
           /\ summary_payload.systems[j].delta_vs_baseline_ms = Zero
           /\ DeltaCellOf(rows[j + 1]) = SignedF3(Zero)

----------------------------------------------------------------------------
(* C6: for a label in both the run and the baseline, the delta added to    *)
(* the baseline mean gives the current mean, and the delta is negative     *)
(* exactly when the current mean is the lower one.                         *)

C6_DeltaIsMeanMinusBaseline ==
    (pc = "write_text" /\ has_baseline) =>
        \A i \in 1..Len(summary_payload.systems) :
            LET e == summary_payload.systems[i]
            IN  e.label \in BaselineLabels =>
                   LET d == e.delta_vs_baseline_ms
                       b == BaselineMean(e.label)
                   IN  /\ RAdd(d, b) = e.mean_ms
                       /\ d[1] < 0 <=> RLess(e.mean_ms, b)
                       /\ d[1] > 0 <=> RLess(b, e.mean_ms)

\* baseline mean 5.0, current mean 6.5, delta +1.5
C6_Witness ==
    /\ pc = "write_text"
    /\ has_baseline
    /\ \E i \in 1..Len(summary_payload.systems) :
           LET e == summary_payload.systems[i]
           IN  /\ e.label \in BaselineLabels
               /\ BaselineMean(e.label) = Rat(5, 1)
               /\ e.mean_ms = Rat(13, 2)
               /\ e.delta_vs_baseline_ms = Rat(3, 2)
               /\ DeltaCellOf(rows[i + 1]).sign = "+"
               /\ DeltaCellOf(rows[i + 1]).num = 1500

----------------------------------------------------------------------------
(* C7: mean_ms times the number of values is their sum; stddev_ms is 0.0   *)
(* for fewer than two values and otherwise the root of the mean of the     *)
(* squares minus the square of the mean (the population variance); equal   *)
(* values give a stddev_ms of 0.0 and a mean_ms equal to the value.        *)

Squares(v) == [j \in 1..Len(v) |-> RMul(v[j], v[j])]

C7_MeanAndPopulationStddev ==
    Summarised =>
        \A i \in 1..Len(summary_payload.systems) :
            LET e == summary_payload.systems[i]
                v == cases[e.label].runs
                n == Rat(Len(v), 1)
            IN  /\ e.runs = v
                /\ RMul(e.mean_ms, n) = RSum(v)
                /\ Len(v) < 2 => e.stddev_ms = ZeroStd
                /\ Len(v) >= 2 =>
                      RMul(RAdd(e.stddev_ms.root_of, RMul(e.mean_ms, e.mean_ms)), n)
                          = RSum(Squares(v))
                /\ (\A j \in 1..Len(v) : v[j] = v[1]) =>
                      e.stddev_ms = ZeroStd /\ e.mean_ms = v[1]

\* a label with two different values and a label with a single value
C7_Witness ==
    /\ Summarised
    /\ \E i, j \in 1..Len(summary_payload.systems) :
           /\ summary_payload.systems[i].runs = <<Rat(6, 1), Rat(7, 1)>>
           /\ summary_payload.systems[i].stddev_ms = [root_of |-> Rat(1, 4)]
           /\ Len(summary_payload.systems[j].runs) = 1

----------------------------------------------------------------------------
(* C8: in the JSON artifact this run wrote, the labels of systems are in   *)
(* strictly ascending order (so none occurs twice) and are the labels the  *)
(* reports mentioned.                                                      *)

C8_SystemsSortedUnique ==
    (files[JsonPath].kind = "json" /\ OfThisRun(files[JsonPath])) =>
        LET systems == files[JsonPath].body.systems
        IN  /\ \A i, j \in 1..Len(systems) :
                   i < j => StrLess(systems[i].label, systems[j].label)
            /\ {systems[i].label : i \in 1..Len(systems)} = DOMAIN cases

\* the last report named "2" before "1", and "2" was reported twice
C8_Witness ==
    /\ pc = "done"
    /\ Len(report_entries(files[ReportPath])) = 2
    /\ report_entries(files[ReportPath])[1].label = <<2>>
    /\ report_entries(files[ReportPath])[2].label = <<1>>
    /\ Len(cases[<<2>>].runs) = 2
    /\ Len(files[JsonPath].body.systems) = 2

----------------------------------------------------------------------------
(* C9: load_baseline applied to the JSON artifact of a finished run gives  *)
(* a map whose keys are the labels of the systems of the run and whose     *)
(* values are their mean_ms.                                               *)

C9_RoundTrip ==
    pc = "done" =>
        /\ ~JsonDecodeRaises(files[JsonPath])
        /\ LET m       == load_baseline(json_loads(files[JsonPath]))
               systems == summary_payload.systems
           IN  /\ DOMAIN m = {systems[i].label : i \in 1..Len(systems)}
               /\ DOMAIN m = DOMAIN cases
               /\ \A i \in 1..Len(systems) :
                      m[systems[i].label] = systems[i].mean_ms

\* a finished run with two labels of different means
C9_Witness ==
    /\ pc = "done"
    /\ Len(summary_payload.systems) = 2
    /\ summary_payload.systems[1].mean_ms # summary_payload.systems[2].mean_ms

----------------------------------------------------------------------------
(* C10: when main has ended, either both artifacts of this run are in      *)
(* place or neither is; after a failed write nothing of this run is left   *)
(* under either name.                                                      *)

C10_AllOrNothing ==
    pc \in {"done", "raised"} =>
        /\ OfThisRun(files[TextPath]) <=> OfThisRun(files[JsonPath])
        /\ error = "OSError" =>
              ~OfThisRun(files[TextPath]) /\ ~OfThisRun(files[JsonPath])

----------------------------------------------------------------------------
(* C11: the report of a trial is read after the harness invocation of the  *)
(* trial and before the next invocation, and what is folded into the       *)
(* accumulator is what the harness wrote during that trial, never a        *)
(* report an earlier trial or an earlier run left at the report path.      *)

C11_FreshReportPerTrial ==
    [][/\ pc' = "read_report" => (pc = "loop" /\ idx' = idx)
       /\ FoldStep =>
             /\ idx' = idx + 1
             /\ cases' = Fold(cases, report_entries(files[ReportPath]))
             /\ harness_wrote]_vars

----------------------------------------------------------------------------
(* C13: the baseline artifact is never changed by the current run: no step *)
(* of main changes the file at the --baseline path, for every --label and  *)
(* every --baseline path.                                                  *)

SameFile(f, g) == f.kind = g.kind /\ (f.kind # "absent" => f.body = g.body)

C13_BaselineNeverMutated ==
    [][has_baseline => SameFile(files'[baseline], files[baseline])]_vars

----------------------------------------------------------------------------
(* C14: every data row of the table has the cells of the header, in the    *)
(* order of the header: the label, one run cell per trial R, the mean, the *)
(* stddev, a delta cell exactly when a baseline was given, the budget;     *)
(* also for a label that only some of the R trials reported.               *)

\* the cell of a data row is of the kind its header cell announces: a delta
\* is "n/a" or a number with its sign, a measurement (never negative here) a
\* number without one
UnderHeader(head, c) ==
    CASE head = Word("system") -> c.kind = "label"
      [] head = Word("delta")  ->
             c = Word("n/a") \/ (c.kind = ".3f" /\ c.sign \in {"+", "-"})
      [] OTHER                 -> c.kind = ".3f" /\ c.sign = ""

C14_RowsMatchHeader ==
    rows # <<>> =>
        /\ rows[1] = Header(runs, has_baseline)
        /\ \A r \in 2..Len(rows) :
               /\ Len(rows[r]) = Len(rows[1])
               /\ \A i \in 1..Len(rows[1]) : UnderHeader(rows[1][i], rows[r][i])

----------------------------------------------------------------------------
BaselineNotFound == "FileNotFoundError: Baseline summary not found"

\* once main is past the load of the baseline, it has failed with "not found"
\* exactly if a baseline was asked for and is not there; it has failed before
\* any trial, and has written nothing
NotFoundIffMissing ==
    /\ pc # "load_baseline" =>
           (error = BaselineNotFound <=>
                has_baseline /\ ~exists(files, baseline))
    /\ error = BaselineNotFound =>
           /\ pc = "raised"
           /\ idx = 1
           /\ cases = NoDict
           /\ ~harness_wrote
           /\ ~OfThisRun(files[TextPath])
           /\ ~OfThisRun(files[JsonPath])
    /\ ~has_baseline => error # BaselineNotFound

(* C15: main fails with "baseline not found" exactly when a baseline path  *)
(* was given and no file exists there; the failure comes from the load of  *)
(* the baseline, before the first harness trial, and leaves every file as  *)
(* it was; without a baseline path it never occurs, whatever files exist.  *)

C15_BaselineNotFound ==
    /\ [](NotFoundIffMissing)
    /\ [][error' = BaselineNotFound =>
             /\ pc = "load_baseline" \/ UNCHANGED vars
             /\ files' = files]_vars

\* the baseline is missing while a report and both artifacts of an earlier
\* run exist
C15_Witness ==
    /\ error = BaselineNotFound
    /\ exists(files, ReportPath)
    /\ exists(files, TextPath)
    /\ exists(files, JsonPath)

----------------------------------------------------------------------------
(* capture_sprite_perf.py: parse_profile_output.                           *)
(*                                                                         *)
(* The text is a sequence of lines and a line a sequence of tokens, which  *)
(* single blanks separate: a literal word or a number ("3", or "3.5" when  *)
(* dot is set).  A pattern is a sequence of atoms: a literal, \d+ or       *)
(* [0-9.]+, the last two with the name of their group.  No line of the     *)
(* texts below ends inside a pattern, so no match spans two lines.         *)

MaxLines == 3

Lit(w) == [kind |-> "lit", lit |-> w, int |-> 0, dot |-> FALSE]
Num(n, dot) == [kind |-> "num", lit |-> "", int |-> n, dot |-> dot]

L(w) == [kind |-> "lit", lit |-> w, name |-> ""]
I(name) == [kind |-> "int", lit |-> "", name |-> name]
D(name) == [kind |-> "dec", lit |-> "", name |-> name]

Tag == L("[animation_profile]")

STEP_STATS_RE ==
    <<Tag, L("sys_drive"), L("per-step"), L("stats:"),
      L("mean="), D("mean"), L("ms"), L("p95="), D("p95"), L("ms"),
      L("max="), D("max"), L("ms"),
      L("steady_mean="), D("steady"), L("ms"),
      L("steady_samples="), I("steady_samples"),
      L("spike_mean="), D("spike"), L("ms"),
      L("spike_samples="), I("spike_samples")>>

SPRITE_TOTALS_RE ==
    <<Tag, L("anim_stats"), L("sprite"), L("totals:"),
      L("fast_loop="), I("fast_loop"), L("event="), I("event"),
      L("plain="), I("plain"), L("bsearch="), I("bsearch"),
      L("fast_bucket="), I("fast_bucket"),
      L("general_bucket="), I("general_bucket"), L("applies="), I("applies")>>

SPRITE_BUCKET_AVG_RE ==
    <<Tag, L("anim_stats"), L("sprite"), L("bucket"), L("avg:"),
      L("fast="), D("fast"), L("entities/frame"),
      L("general="), D("general"), L("entities/frame")>>

TOP_STEP_RE ==
    <<Tag, L("step"), I("index"), L("->"), D("value"), L("ms")>>

TOP_MIX_RE ==
    <<Tag, L("step"), I("index"), L("->"), D("value"), L("ms"), L("|"),
      L("sprite(fast="), I("fast"), L("event="), I("event"),
      L("plain="), I("plain"), L("bsearch="), I("bsearch"),
      L("fast_bucket="), I("fast_bucket"),
      L("general_bucket="), I("general_bucket"),
      L("applies="), I("applies"), L(")"),
      L("transform(adv="), I("adv"), L("zero="), I("zero"),
      L("skipped="), I("skipped"), L("loop_resume="), I("loop_resume"),
      L("zero_duration="), I("zero_duration"),
      L("fast="), I("fast_path"), L("slow="), I("slow_path"), L(")"),
      L("time_ns(adv="), I("adv_ns"), L("sample="), I("sample_ns"),
      L("apply="), I("apply_ns"), L(")")>>

\* the atom matches the token; \d+ at the very end of a pattern is content
\* with the digits before a dot
AtomMatches(atom, token, last) ==
    CASE atom.kind = "lit" -> token.kind = "lit" /\ token.lit = atom.lit
      [] atom.kind = "dec" -> token.kind = "num"
      [] atom.kind = "int" -> token.kind = "num" /\ (~token.dot \/ last)

\* the pattern matches the line from its token at offset
MatchAt(pattern, line, offset) ==
    /\ offset + Len(pattern) - 1 <= Len(line)
    /\ \A k \in 1..Len(pattern) :
           AtomMatches(pattern[k], line[offset + k - 1], k = Len(pattern))

\* the offsets of the matches in a line, left to right
LineOffsets(pattern, line) ==
    SelectSeq([o \in 1..Len(line) |-> o], LAMBDA o : MatchAt(pattern, line, o))

RECURSIVE MatchesFrom(_, _, _)
MatchesFrom(pattern, text, i) ==
    IF i > Len(text) THEN <<>>
    ELSE LET offsets == LineOffsets(pattern, text[i])
         IN  [k \in 1..Len(offsets) |-> [line |-> i, offset |-> offsets[k]]]
                 \o MatchesFrom(pattern, text, i + 1)

\* pattern.finditer(text): every match, in the order of the text
finditer(pattern, text) == MatchesFrom(pattern, text, 1)

\* pattern.search(text), an Optional: <<>> is None, <<m>> the first match
search(pattern, text) ==
    LET all == finditer(pattern, text)
    IN  IF all = <<>> THEN <<>> ELSE <<all[1]>>

\* the names of the groups of a pattern
Groups(pattern) ==
    {pattern[k].name : k \in {j \in 1..Len(pattern) : pattern[j].kind # "lit"}}

\* m.group(name): the token the group matched
group(pattern, text, m, name) ==
    LET k == CHOOSE j \in 1..Len(pattern) : pattern[j].name = name
    IN  text[m.line][m.offset + k - 1]

\* int(v), of the digits \d+ matched
int(token) == token.int

\* float(v)
float(token) ==
    IF token.dot THEN Rat(2 * token.int + 1, 2) ELSE Rat(token.int, 1)

\* the keys with "samples" in their name
SampleKeys == {"steady_samples", "spike_samples"}

per_step_stats(text, m) ==
    [k \in Groups(STEP_STATS_RE) |->
        IF k \in SampleKeys THEN int(group(STEP_STATS_RE, text, m, k))
        ELSE float(group(STEP_STATS_RE, text, m, k))]

sprite_totals(text, m) ==
    [k \in Groups(SPRITE_TOTALS_RE) |-> int(group(SPRITE_TOTALS_RE, text, m, k))]

sprite_bucket_avg(text, m) ==
    [k \in Groups(SPRITE_BUCKET_AVG_RE) |->
        float(group(SPRITE_BUCKET_AVG_RE, text, m, k))]

\* an entry of top_steps
TopStepEntry(text, m) ==
    [step |-> int(group(TOP_STEP_RE, text, m, "index")),
     ms |-> float(group(TOP_STEP_RE, text, m, "value"))]

\* an entry of top_step_mix
TopMixEntry(text, m) ==
    [k \in Groups(TOP_MIX_RE) \ {"index", "value"} |->
        int(group(TOP_MIX_RE, text, m, k))]
      @@ [step |-> int(group(TOP_MIX_RE, text, m, "index")),
          ms |-> float(group(TOP_MIX_RE, text, m, "value"))]

\* data[key] = value if the value was found
Found(key, optional) ==
    IF optional = <<>> THEN NoDict ELSE key :> optional[1]

parse_profile_output(text) ==
    LET stats == search(STEP_STATS_RE, text)
        totals == search(SPRITE_TOTALS_RE, text)
        bucket == search(SPRITE_BUCKET_AVG_RE, text)
        steps == finditer(TOP_STEP_RE, text)
        mix == finditer(TOP_MIX_RE, text)
        top_steps == [i \in 1..Len(steps) |-> TopStepEntry(text, steps[i])]
        top_mix == [i \in 1..Len(mix) |-> TopMixEntry(text, mix[i])]
    IN  Found("per_step_stats",
              IF stats = <<>> THEN <<>> ELSE <<per_step_stats(text, stats[1])>>)
          @@ Found("sprite_totals",
                   IF totals = <<>> THEN <<>>
                   ELSE <<sprite_totals(text, totals[1])>>)
          @@ Found("sprite_bucket_avg",
                   IF bucket = <<>> THEN <<>>
                   ELSE <<sprite_bucket_avg(text, bucket[1])>>)
          @@ Found("top_steps", IF top_steps = <<>> THEN <<>> ELSE <<top_steps>>)
          @@ Found("top_step_mix", IF top_mix = <<>> THEN <<>> ELSE <<top_mix>>)

\* a line the harness prints for a pattern, every number of it n, the
\* measurements with a fraction
Printed(pattern, n) ==
    [k \in 1..Len(pattern) |->
        IF pattern[k].kind = "lit" THEN Lit(pattern[k].lit)
        ELSE Num(n, pattern[k].kind = "dec")]

\* a line of cargo, of no pattern
Chatter == <<Lit("running"), Num(1, FALSE), Lit("test")>>

\* a top step whose index is not \d+
BrokenStep ==
    <<Lit("[animation_profile]"), Lit("step"), Num(1, TRUE), Lit("->"),
      Num(1, TRUE), Lit("ms")>>

ProfileLines ==
    {Chatter, BrokenStep,
     Printed(STEP_STATS_RE, 1), Printed(STEP_STATS_RE, 2),
     Printed(SPRITE_TOTALS_RE, 1), Printed(SPRITE_BUCKET_AVG_RE, 1),
     Printed(TOP_STEP_RE, 1), Printed(TOP_STEP_RE, 2),
     Printed(TOP_MIX_RE, 1), Printed(TOP_MIX_RE, 2)}

\* the standard output of a profile run
ProfileOutputs ==
    UNION {[1..n -> ProfileLines] : n \in 0..MaxLines}

\* sprite_bench.py is not running
BenchIdle ==
    /\ pc = "idle"
    /\ runs = 0
    /\ baseline = ""
    /\ files = Files(Absent, Absent, Absent, Absent)
    /\ baseline_map = NoDict
    /\ idx = 1
    /\ cases = NoDict
    /\ rows = <<>>
    /\ summary_payload = NoDict
    /\ error = ""
    /\ harness_wrote = FALSE

ParseInit ==
    /\ parse_pc = "called"
    /\ stdout \in ProfileOutputs
    /\ data = NoDict
    /\ BenchIdle
    /\ SuiteIdle

ParseProfileOutput ==
    /\ parse_pc = "called"
    /\ data' = parse_profile_output(stdout)
    /\ parse_pc' = "returned"
    /\ UNCHANGED <<vars, suite_vars, stdout>>

ParseNext == ParseProfileOutput

ParseSpec == ParseInit /\ [][ParseNext]_all_vars

----------------------------------------------------------------------------
\* the category of a line: that of the pattern the line is printed for.  A
\* line of TopStepMix begins like one of TopStep and goes on after " ms"
Category(line) ==
    CASE LineOffsets(STEP_STATS_RE, line) # <<>>        -> "StepStats"
      [] LineOffsets(SPRITE_TOTALS_RE, line) # <<>>     -> "Totals"
      [] LineOffsets(SPRITE_BUCKET_AVG_RE, line) # <<>> -> "BucketAverage"
      [] LineOffsets(TOP_MIX_RE, line) # <<>>           -> "TopStepMix"
      [] LineOffsets(TOP_STEP_RE, line) # <<>>          -> "TopStep"
      [] OTHER                                          -> "none"

\* the lines of a category, in the order of the text
LinesOf(category) ==
    SelectSeq([i \in 1..Len(stdout) |-> i],
              LAMBDA i : Category(stdout[i]) = category)

\* the match of a pattern in line i
MatchIn(pattern, i) ==
    [line |-> i, offset |-> LineOffsets(pattern, stdout[i])[1]]

\* one record for a single-shot category that is present, of its first line
OneRecord(key, category, record(_)) ==
    LET lines == LinesOf(category)
    IN  IF lines = <<>> THEN key \notin DOMAIN data
        ELSE key \in DOMAIN data /\ data[key] = record(lines[1])

\* one record per line of a repeating category, in the order of the text
RecordPerLine(key, category, record(_)) ==
    LET lines == LinesOf(category)
    IN  Get(data, key, <<>>) = [k \in 1..Len(lines) |-> record(lines[k])]

(* C12: parse_profile_output yields one record for each single-shot       *)
(* category (StepStats, Totals, BucketAverage) that is present, the one of *)
(* its first line, and for each repeating category (TopStep, TopStepMix)   *)
(* one record per line of the category, in the order of the text; a line   *)
(* of no category yields nothing.                                          *)

C12_OneRecordPerOccurrence ==
    parse_pc = "returned" =>
        /\ OneRecord("per_step_stats", "StepStats",
               LAMBDA i :
                   per_step_stats(stdout, MatchIn(STEP_STATS_RE, i)))
        /\ OneRecord("sprite_totals", "Totals",
               LAMBDA i :
                   sprite_totals(stdout, MatchIn(SPRITE_TOTALS_RE, i)))
        /\ OneRecord("sprite_bucket_avg", "BucketAverage",
               LAMBDA i :
                   sprite_bucket_avg(stdout, MatchIn(SPRITE_BUCKET_AVG_RE, i)))
        /\ RecordPerLine("top_steps", "TopStep",
               LAMBDA i :
                   TopStepEntry(stdout, MatchIn(TOP_STEP_RE, i)))
        /\ RecordPerLine("top_step_mix", "TopStepMix",
               LAMBDA i :
                   TopMixEntry(stdout, MatchIn(TOP_MIX_RE, i)))

----------------------------------------------------------------------------
(* run_perf_suite.py, and the capture_sprite_perf.py process it starts.    *)
(* calls lists the child processes that were started, in order; perf_dir   *)
(* the summaries in perf/.                                                 *)

SpriteBench == "sprite_bench.py"
CaptureScript == "capture_sprite_perf.py"
AnimStats == "cargo test anim_stats"

\* python_candidates has at most args.python_cmd, sys.executable and "python"
MaxCandidates == 3

\* shlex.split(args.capture_extra)
CaptureExtras ==
    {<<>>, <<"--skip-bench">>, <<"--skip-profile">>,
     <<"--skip-bench", "--skip-profile">>}

\* the argument is on the command line
Given(cmd, flag) == \E i \in 1..Len(cmd) : cmd[i] = flag

SuiteInit ==
    /\ \E skip_bench \in BOOLEAN, skip_capture \in BOOLEAN,
          capture_extra \in CaptureExtras :
           suite = SuiteStart("bench", skip_bench, skip_capture, capture_extra)
    /\ capture = NoCapture
    /\ calls = <<>>
    /\ perf_dir = {}
    /\ BenchIdle
    /\ ParseIdle

SuiteRaise(exception) ==
    suite' = [suite EXCEPT !.pc = "raised", !.error = exception]

\* main: "skipping sprite_bench.py (per flag)"
SuiteBenchSkipped ==
    /\ suite.pc = "bench"
    /\ suite.skip_bench
    /\ suite' = [suite EXCEPT !.pc = "capture"]
    /\ UNCHANGED <<vars, parse_vars, capture, calls, perf_dir>>

\* run_sprite_bench: args.python cannot be executed
SuiteBenchNotStarted ==
    /\ suite.pc = "bench"
    /\ ~suite.skip_bench
    /\ SuiteRaise("OSError")
    /\ UNCHANGED <<vars, parse_vars, capture, calls, perf_dir>>

\* run_sprite_bench: sprite_bench.py runs and exits 0, its summary written
SuiteBenchRuns ==
    /\ suite.pc = "bench"
    /\ ~suite.skip_bench
    /\ calls' = Append(calls, SpriteBench)
    /\ perf_dir' = perf_dir \cup {"bench.json"}
    /\ suite' = [suite EXCEPT !.pc = "capture", !.bench_result = <<"bench.json">>]
    /\ UNCHANGED <<vars, parse_vars, capture>>

\* run_sprite_bench: sprite_bench.py runs and exits non-zero
SuiteBenchFails ==
    /\ suite.pc = "bench"
    /\ ~suite.skip_bench
    /\ calls' = Append(calls, SpriteBench)
    /\ SuiteRaise("CalledProcessError: sprite_bench.py")
    /\ UNCHANGED <<vars, parse_vars, capture, perf_dir>>

\* main: "skipping capture_sprite_perf.py (per flag)"
SuiteCaptureSkipped ==
    /\ suite.pc = "capture"
    /\ suite.skip_capture
    /\ suite' = [suite EXCEPT !.pc = "write"]
    /\ UNCHANGED <<vars, parse_vars, capture, calls, perf_dir>>

\* run_capture: args.python cannot be executed
SuiteCaptureNotStarted ==
    /\ suite.pc = "capture"
    /\ ~suite.skip_capture
    /\ SuiteRaise("OSError")
    /\ UNCHANGED <<vars, parse_vars, capture, calls, perf_dir>>

\* the command line run_capture builds, from --label on left out
CaptureCommand(skip_bench_flag, capture_extra) ==
    (IF skip_bench_flag THEN <<"--skip-bench">> ELSE <<>>) \o capture_extra

\* run_capture starts capture_sprite_perf.py, whose parse_args reads the
\* command line
SuiteCaptureStarts ==
    /\ suite.pc = "capture"
    /\ ~suite.skip_capture
    /\ LET capture_skip_bench == suite.bench_result # <<>>
           cmd == CaptureCommand(capture_skip_bench, suite.capture_extra)
       IN  \E n \in 1..MaxCandidates :
               capture' = [NoCapture EXCEPT
                              !.pc = "start",
                              !.skip_bench = Given(cmd, "--skip-bench"),
                              !.skip_profile = Given(cmd, "--skip-profile"),
                              !.candidates = n]
    /\ calls' = Append(calls, CaptureScript)
    /\ suite' = [suite EXCEPT !.pc = "wait"]
    /\ UNCHANGED <<vars, parse_vars, perf_dir>>

\* capture main: "Nothing to do"
CaptureNothingToDo ==
    /\ capture.pc = "start"
    /\ capture.skip_bench /\ capture.skip_profile
    /\ capture' = [capture EXCEPT !.pc = "exit_1"]
    /\ UNCHANGED <<vars, parse_vars, suite, calls, perf_dir>>

\* capture main: git rev-parse HEAD fails
CaptureGitRevFails ==
    /\ capture.pc = "start"
    /\ ~(capture.skip_bench /\ capture.skip_profile)
    /\ capture' = [capture EXCEPT !.pc = "exit_1"]
    /\ UNCHANGED <<vars, parse_vars, suite, calls, perf_dir>>

CaptureBegins ==
    /\ capture.pc = "start"
    /\ ~(capture.skip_bench /\ capture.skip_profile)
    /\ capture' = [capture EXCEPT !.pc = "bench"]
    /\ UNCHANGED <<vars, parse_vars, suite, calls, perf_dir>>

\* capture main: if not args.skip_bench
CaptureBenchSkipped ==
    /\ capture.pc = "bench"
    /\ capture.skip_bench
    /\ capture' = [capture EXCEPT !.pc = "profile"]
    /\ UNCHANGED <<vars, parse_vars, suite, calls, perf_dir>>

\* capture run_sprite_bench: the candidate cannot be executed (OSError)
CaptureBenchNotStarted ==
    /\ capture.pc = "bench"
    /\ ~capture.skip_bench
    /\ capture.candidate <= capture.candidates
    /\ capture' = [capture EXCEPT !.candidate = @ + 1]
    /\ UNCHANGED <<vars, parse_vars, suite, calls, perf_dir>>

\* capture run_sprite_bench: no candidate is left (RuntimeError)
CaptureBenchNoPython ==
    /\ capture.pc = "bench"
    /\ ~capture.skip_bench
    /\ capture.candidate > capture.candidates
    /\ capture' = [capture EXCEPT !.pc = "exit_1"]
    /\ UNCHANGED <<vars, parse_vars, suite, calls, perf_dir>>

\* capture run_sprite_bench: sprite_bench.py runs and exits 0
CaptureBenchRuns ==
    /\ capture.pc = "bench"
    /\ ~capture.skip_bench
    /\ capture.candidate <= capture.candidates
    /\ calls' = Append(calls, SpriteBench)
    /\ perf_dir' = perf_dir \cup {"bench.json"}
    /\ capture' = [capture EXCEPT !.pc = "profile",
                                  !.bench_cmd = <<capture.candidate>>]
    /\ UNCHANGED <<vars, parse_vars, suite>>

\* capture run_sprite_bench: sprite_bench.py runs and exits non-zero
CaptureBenchFails ==
    /\ capture.pc = "bench"
    /\ ~capture.skip_bench
    /\ capture.candidate <= capture.candidates
    /\ calls' = Append(calls, SpriteBench)
    /\ capture' = [capture EXCEPT !.pc = "exit_1"]
    /\ UNCHANGED <<vars, parse_vars, suite, perf_dir>>

\* capture main: if not args.skip_profile
CaptureProfileSkipped ==
    /\ capture.pc = "profile"
    /\ capture.skip_profile
    /\ capture' = [capture EXCEPT !.pc = "write"]
    /\ UNCHANGED <<vars, parse_vars, suite, calls, perf_dir>>

\* run_animation_profile: the harness exits 0, the log is written and parsed
CaptureProfileRuns ==
    /\ capture.pc = "profile"
    /\ ~capture.skip_profile
    /\ calls' = Append(calls, AnimStats)
    /\ perf_dir' = perf_dir \cup {"profile.log"}
    /\ capture' = [capture EXCEPT !.pc = "write", !.profile_data = <<"stats">>]
    /\ UNCHANGED <<vars, parse_vars, suite>>

\* run_subprocess: the harness exits non-zero (RuntimeError)
CaptureProfileFails ==
    /\ capture.pc = "profile"
    /\ ~capture.skip_profile
    /\ calls' = Append(calls, AnimStats)
    /\ capture' = [capture EXCEPT !.pc = "exit_1"]
    /\ UNCHANGED <<vars, parse_vars, suite, perf_dir>>

\* capture main writes <label>_capture.json and returns 0
CaptureWrites ==
    /\ capture.pc = "write"
    /\ perf_dir' = perf_dir \cup {"capture.json"}
    /\ capture' = [capture EXCEPT !.pc = "exit_0"]
    /\ UNCHANGED <<vars, parse_vars, suite, calls>>

\* run_capture: the child exited 0 and its summary is loaded
SuiteCaptureReturns ==
    /\ suite.pc = "wait"
    /\ capture.pc = "exit_0"
    /\ "capture.json" \in perf_dir
    /\ suite' = [suite EXCEPT !.pc = "write",
                              !.capture_result = <<"capture.json">>]
    /\ UNCHANGED <<vars, parse_vars, capture, calls, perf_dir>>

\* run_capture: the child exited non-zero
SuiteCaptureFails ==
    /\ suite.pc = "wait"
    /\ capture.pc = "exit_1"
    /\ SuiteRaise("CalledProcessError: capture_sprite_perf.py")
    /\ UNCHANGED <<vars, parse_vars, capture, calls, perf_dir>>

\* main writes <label>_suite.json and returns 0
SuiteWrites ==
    /\ suite.pc = "write"
    /\ perf_dir' = perf_dir \cup {"suite.json"}
    /\ suite' = [suite EXCEPT !.pc = "done"]
    /\ UNCHANGED <<vars, parse_vars, capture, calls>>

SuiteNext ==
    \/ SuiteBenchSkipped
    \/ SuiteBenchNotStarted
    \/ SuiteBenchRuns
    \/ SuiteBenchFails
    \/ SuiteCaptureSkipped
    \/ SuiteCaptureNotStarted
    \/ SuiteCaptureStarts
    \/ CaptureNothingToDo
    \/ CaptureGitRevFails
    \/ CaptureBegins
    \/ CaptureBenchSkipped
    \/ CaptureBenchNotStarted
    \/ CaptureBenchNoPython
    \/ CaptureBenchRuns
    \/ CaptureBenchFails
    \/ CaptureProfileSkipped
    \/ CaptureProfileRuns
    \/ CaptureProfileFails
    \/ CaptureWrites
    \/ SuiteCaptureReturns
    \/ SuiteCaptureFails
    \/ SuiteWrites

SuiteSpec == SuiteInit /\ [][SuiteNext]_all_vars

----------------------------------------------------------------------------
\* the positions in calls at which sprite_bench.py was started
BenchCalls == {i \in 1..Len(calls) : calls[i] = SpriteBench}

(* C16: in a run of run_perf_suite.py with --skip-bench, sprite_bench.py   *)
(* is never started, neither by the suite itself nor by the                *)
(* capture_sprite_perf.py it starts; and in every run of the suite         *)
(* sprite_bench.py is started at most once.                                *)

C16_SkipBenchMeansNoBench ==
    /\ suite.skip_bench => BenchCalls = {}
    /\ Cardinality(BenchCalls) <= 1

====
